---- MODULE Spec2Model ----
(***************************************************************************)
(* Real-time conversation layer of the Agrodoc backend                     *)
(* (backend/src/utils/socket.ts and the REST chat routes).                 *)
(*                                                                         *)
(* The Node.js event loop runs one piece of JavaScript at a time; an async *)
(* handler is suspended at every `await` of a Prisma call.  A handler in   *)
(* flight is a task whose pc names the persistence call it is waiting for. *)
(* One action = the pending persistence call takes effect and the handler  *)
(* runs on to its next `await` (or to its end).                            *)
(***************************************************************************)
EXTENDS Integers, Sequences, FiniteSets, TLC

\* ---------------------------------------------------------------- bounds
MaxSockets == 3     \* connections ever opened
MaxChatSockets == 2 \* connections opened where conversations are exercised
MaxTasks   == 2     \* handlers in flight at the same time
MaxConvs   == 2     \* conversation rows ever created
MaxMsgs    == 2     \* message rows ever created

\* ------------------------------------------------------------- constants
None     == "none"                 \* undefined / null
Ghost    == "ux"                   \* an id that is no row of the user table
Users    == {"u1", "u2", "u3"}     \* rows of the user table
Sockets  == 1..MaxSockets
Tasks    == 1..MaxTasks
ConvIds  == 1..MaxConvs
ConvInputs == 1..(MaxConvs + 1)    \* ids a client may name: one is never a row
ChatSockets == 1..MaxChatSockets
Contents == {<< >>, <<" ">>, <<"h">>}   \* message bodies, as character sequences
Bodies == {<< >>, <<" ", " ">>, <<" ", "h">>}   \* bodies of REST requests

VARIABLES
    sockStatus,    \* socket -> "new" | "open" | "closed" | "rejected"
    sockUser,      \* socket -> socket.userId (None until authenticated)
    onlineUsers,   \* the Map userId -> socketId (0: no entry)
    rooms,         \* socket -> set of rooms (conversation ids) it has joined
    conversations, \* conversation table: id = index, [participants, updatedAt]
    messages,      \* message table in append order: id = index
    tasks,         \* handlers in flight
    emitted,       \* events delivered by the last step, in order
    inbox          \* socket -> new_message ids it has received, in order

vars == <<sockStatus, sockUser, onlineUsers, rooms, conversations,
          messages, tasks, emitted, inbox>>

\* ---------------------------------------------------------------- events
Ev(to, ev, user, conv, msg, text) ==
    [to |-> to, ev |-> ev, user |-> user, conv |-> conv, msg |-> msg, text |-> text]

ErrorEv(to, text) == Ev(to, "error", None, 0, 0, text)

OpenSockets == {s \in Sockets : sockStatus[s] = "open"}

\* the events one emit delivers: one copy per target socket
RECURSIVE Fanout(_, _, _)
Fanout(n, targets, e) ==
    IF n = 0 THEN << >>
    ELSE Fanout(n - 1, targets, e)
         \o (IF n \in targets THEN <<[e EXCEPT !.to = n]>> ELSE << >>)

\* socket.emit(...): to this socket, dropped when the socket is closed
SocketEmit(s, e) == Fanout(MaxSockets, {s} \cap OpenSockets, e)

\* io.emit(...): to every connected socket
IoEmit(open, e) == Fanout(MaxSockets, open, e)

\* io.to(room): the connected sockets that joined the room
RoomMembers(c) == {s \in OpenSockets : c \in rooms[s]}

\* io.to(room) in place of socket.to(room): the emitting socket is included
RoomOthers_WithSender(s, c) == RoomMembers(c)

\* socket.to(room): the room without the emitting socket
RoomOthers(s, c) == RoomMembers(c) \ {s}

\* ----------------------------------------------------------------- tasks
IdleTask == [pc |-> "idle", sock |-> 0, user |-> None, recip |-> None,
             conv |-> 0, content |-> << >>, msg |-> 0]

IsIdle(t) == tasks[t].pc = "idle"

\* a handler starts in the lowest free slot
FreeTask(t) == /\ IsIdle(t)
               /\ \A o \in Tasks : o < t => ~IsIdle(o)

Finish(t) == tasks' = [tasks EXCEPT ![t] = IdleTask]

\* ------------------------------------------------------------------ Init
Init ==
    /\ sockStatus = [s \in Sockets |-> "new"]
    /\ sockUser = [s \in Sockets |-> None]
    /\ onlineUsers = [u \in Users |-> 0]
    /\ rooms = [s \in Sockets |-> {}]
    /\ conversations = << >>
    /\ messages = << >>
    /\ tasks = [t \in Tasks |-> IdleTask]
    /\ emitted = << >>
    /\ inbox = [s \in Sockets |-> << >>]

\* ------------------------------------------------------ presence registry
\* the connection handler keeps an entry that is already there
MarkOnline_KeepFirst(reg, u, s) ==
    IF reg[u] # 0 THEN reg ELSE [reg EXCEPT ![u] = s]

\* onlineUsers.set(socket.userId, socket.id)
MarkOnline(reg, u, s) == [reg EXCEPT ![u] = s]

\* the disconnect handler forgets onlineUsers.delete
MarkOffline_Keep(reg, u) == reg

MarkOffline(reg, u) == [reg EXCEPT ![u] = 0]

isUserOnline(u) == onlineUsers[u] # 0

getOnlineUsers == {u \in Users : onlineUsers[u] # 0}

\* the middleware accepts any handshake that carries an id
Authenticates_AnyId(claimed) == claimed # None

\* io.use middleware: the handshake's userId must be a row of the user table
Authenticates(claimed) == claimed # None /\ claimed \in Users

\* user ids are interchangeable: the users are named in the order of their
\* first connection, so a handshake claims a user seen before, the next
\* unseen one, an unknown id or no id
UserOrder == <<"u1", "u2", "u3">>

Handshakes ==
    LET seen == {sockUser[s] : s \in Sockets} \ {None}
        k    == Cardinality(seen)
    IN  seen \cup (IF k < Len(UserOrder) THEN {UserOrder[k + 1]} ELSE {})
             \cup {Ghost, None}

\* sockets get their ids in the order they connect
NextSocket(s) == /\ sockStatus[s] = "new"
                 /\ \A o \in Sockets : o < s => sockStatus[o] # "new"

\* a client connects: middleware, then the connection handler
Connect(s, claimed) ==
    /\ NextSocket(s)
    /\ claimed \in Handshakes
    /\ IF Authenticates(claimed)
       THEN /\ sockStatus' = [sockStatus EXCEPT ![s] = "open"]
            /\ sockUser' = [sockUser EXCEPT ![s] = claimed]
            /\ onlineUsers' = MarkOnline(onlineUsers, claimed, s)
            /\ emitted' = IoEmit(OpenSockets \cup {s},
                                 Ev(0, "user_online", claimed, 0, 0, ""))
       ELSE /\ sockStatus' = [sockStatus EXCEPT ![s] = "rejected"]
            /\ emitted' = << >>
            /\ UNCHANGED <<sockUser, onlineUsers>>
    /\ UNCHANGED <<rooms, conversations, messages, tasks, inbox>>

\* a client connects and prisma.user.findUnique throws: the middleware's
\* catch refuses the connection
ConnectLookupFails(s, claimed) ==
    /\ NextSocket(s)
    /\ claimed \in Handshakes \ {None}
    /\ sockStatus' = [sockStatus EXCEPT ![s] = "rejected"]
    /\ emitted' = << >>
    /\ UNCHANGED <<sockUser, onlineUsers, rooms, conversations, messages,
                   tasks, inbox>>

\* the connection closes: socket.io empties its rooms and removes it from
\* the namespace, then the disconnect handler runs
Disconnect(s) ==
    /\ sockStatus[s] = "open"
    /\ sockStatus' = [sockStatus EXCEPT ![s] = "closed"]
    /\ rooms' = [rooms EXCEPT ![s] = {}]
    /\ onlineUsers' = MarkOffline(onlineUsers, sockUser[s])
    /\ emitted' = IoEmit(OpenSockets \ {s},
                         Ev(0, "user_offline", sockUser[s], 0, 0, ""))
    /\ UNCHANGED <<sockUser, conversations, messages, tasks, inbox>>

\* --------------------------------------------------- conversation directory
NumConvs == Len(conversations)

Exists(c) == c \in 1..NumConvs

ParticipantsOf(c) == conversations[c].participants

\* the where clause loses its participants filter
IsParticipant_AnyUser(c, u) == Exists(c)

\* prisma.conversation.findFirst({ id, participants: { some: { userId } } })
IsParticipant(c, u) == Exists(c) /\ u \in ParticipantsOf(c)

\* the where clause matches only when userId1 is the first user, so the
\* lookup depends on the order of its arguments
MatchesPair_FirstOnly(c, u1, u2) ==
    /\ u1 \in ParticipantsOf(c)
    /\ u2 \in ParticipantsOf(c)
    /\ ParticipantsOf(c) \subseteq {u1, u2}
    /\ \A p \in ParticipantsOf(c) \ {u1} : u1 = "u1"

\* the where clause of findOrCreateConversation: some userId1, some userId2,
\* every participant in [userId1, userId2]
MatchesPair(c, u1, u2) ==
    /\ u1 \in ParticipantsOf(c)
    /\ u2 \in ParticipantsOf(c)
    /\ ParticipantsOf(c) \subseteq {u1, u2}

\* the length test compares with the wrong count: nothing is ever found
FindDirect_WrongLength(u1, u2) ==
    {c \in 1..NumConvs : MatchesPair(c, u1, u2)
                         /\ Cardinality(ParticipantsOf(c)) = 3}

\* the where clause keeps only the two `some` filters and the length test
\* is gone: any conversation that holds both users is found
FindDirect_NoEvery(u1, u2) ==
    {c \in 1..NumConvs : u1 \in ParticipantsOf(c) /\ u2 \in ParticipantsOf(c)}

\* the rows findFirst may return (it has no orderBy), kept only when
\* participants.length === 2
FindDirect(u1, u2) ==
    {c \in 1..NumConvs : MatchesPair(c, u1, u2)
                         /\ Cardinality(ParticipantsOf(c)) = 2}

\* the participant table has no foreign key to user
CreateRejected_NoForeignKey(u1, u2) == u1 = u2

\* the table has no unique index on (conversationId, userId)
CreateRejected_NoIndex(u1, u2) == u1 \notin Users \/ u2 \notin Users

\* prisma.conversation.create with the two nested participant rows: the
\* foreign key to user and the unique index (conversationId, userId) reject
\* an unknown user and the pair (u, u), and the nested write rolls back
CreateRejected(u1, u2) == u1 \notin Users \/ u2 \notin Users \/ u1 = u2

NewConversation(u1, u2) == [participants |-> {u1, u2}, updatedAt |-> Len(messages)]

\* the findFirst has no where clause: any conversation is found
FocResults_AnyConversation(u1, u2) ==
    IF NumConvs > 0 THEN 1..NumConvs ELSE {0}

\* findOrCreateConversation, first await: what the findFirst makes the
\* function do, an id to return or 0 for "go on to create"
FocResults(u1, u2) ==
    IF FindDirect(u1, u2) # {} THEN FindDirect(u1, u2) ELSE {0}

NewTask(pc, s, u, rid, c, content) ==
    [IdleTask EXCEPT !.pc = pc, !.sock = s, !.user = u, !.recip = rid,
                     !.conv = c, !.content = content]

Join(s, c) == [rooms EXCEPT ![s] = @ \cup {c}]

\* ------------------------------------------- conversation_ready payload
Take == 50    \* take: 50 of the messages include

Reverse(seq) == [i \in 1..Len(seq) |-> seq[Len(seq) + 1 - i]]

\* the ids of the first n messages that belong to c, in creation order
RECURSIVE CreatedIdsOf(_, _)
CreatedIdsOf(n, c) ==
    IF n = 0 THEN << >>
    ELSE CreatedIdsOf(n - 1, c)
         \o (IF messages[n].conv = c THEN <<n>> ELSE << >>)

\* the list keeps the oldest messages: orderBy asc, take, no reverse
RecentIdsOf_Oldest(c) ==
    LET asc == CreatedIdsOf(Len(messages), c)
    IN  SubSeq(asc, 1, IF Len(asc) < Take THEN Len(asc) ELSE Take)

\* messages: { orderBy: { createdAt: 'desc' }, take: 50 }, then .reverse()
RecentIdsOf(c) ==
    LET desc == Reverse(CreatedIdsOf(Len(messages), c))
    IN  Reverse(SubSeq(desc, 1, IF Len(desc) < Take THEN Len(desc) ELSE Take))

\* socket.emit("conversation_ready", { conversation }): the event, followed
\* by one entry per message of its messages list, in the list's order
ReadyEvents(s, c) ==
    IF s \notin OpenSockets THEN << >>
    ELSE <<Ev(s, "conversation_ready", None, c, 0, "")>>
         \o [i \in 1..Len(RecentIdsOf(c)) |->
               Ev(s, "ready_item", None, c, RecentIdsOf(c)[i], "")]

\* ------------------------------------------------------ start_conversation
\* the event arrives; the recipient lookup (the user table never changes)
\* and the findFirst of findOrCreateConversation complete
StartConversation(s, rid) ==
    /\ sockStatus[s] = "open"
    /\ IF rid \notin Users
       THEN /\ emitted' = SocketEmit(s, ErrorEv(0, "User not found"))
            /\ tasks' = tasks
       ELSE /\ \E t \in Tasks, c \in FocResults(sockUser[s], rid) :
                /\ FreeTask(t)
                /\ tasks' = [tasks EXCEPT ![t] =
                       NewTask(IF c = 0 THEN "sc_create" ELSE "sc_fetch",
                               s, sockUser[s], rid, c, << >>)]
            /\ emitted' = << >>
    /\ UNCHANGED <<sockStatus, sockUser, onlineUsers, rooms,
                   conversations, messages, inbox>>

\* prisma.conversation.create completes (or throws into the handler's catch)
ScCreate(t) ==
    /\ tasks[t].pc = "sc_create"
    /\ IF CreateRejected(tasks[t].user, tasks[t].recip)
       THEN /\ Finish(t)
            /\ emitted' = SocketEmit(tasks[t].sock,
                                     ErrorEv(0, "Failed to start conversation"))
            /\ UNCHANGED conversations
       ELSE /\ NumConvs < MaxConvs
            /\ conversations' = Append(conversations,
                                   NewConversation(tasks[t].user, tasks[t].recip))
            /\ tasks' = [tasks EXCEPT ![t].conv = NumConvs + 1, ![t].pc = "sc_fetch"]
            /\ emitted' = << >>
    /\ UNCHANGED <<sockStatus, sockUser, onlineUsers, rooms, messages, inbox>>

\* the handler answers with io.emit in place of socket.emit
ScFetch_Broadcast(t) ==
    /\ tasks[t].pc = "sc_fetch"
    /\ rooms' = Join(tasks[t].sock, tasks[t].conv)
    /\ emitted' = IoEmit(OpenSockets,
                     Ev(0, "conversation_ready", None, tasks[t].conv, 0, ""))
    /\ Finish(t)
    /\ UNCHANGED <<sockStatus, sockUser, onlineUsers,
                   conversations, messages, inbox>>

\* prisma.conversation.findUnique completes: join the room, answer the caller
ScFetch(t) ==
    /\ tasks[t].pc = "sc_fetch"
    /\ rooms' = Join(tasks[t].sock, tasks[t].conv)
    /\ emitted' = ReadyEvents(tasks[t].sock, tasks[t].conv)
    /\ Finish(t)
    /\ UNCHANGED <<sockStatus, sockUser, onlineUsers,
                   conversations, messages, inbox>>

\* ------------------------------------------- join_conversation / leave
\* the handler joins the room without looking the conversation up
JoinConversation_NoCheck(s, c) ==
    /\ sockStatus[s] = "open"
    /\ rooms' = Join(s, c)
    /\ emitted' = << >>
    /\ UNCHANGED <<sockStatus, sockUser, onlineUsers,
                   conversations, messages, tasks, inbox>>

\* the event arrives and its findFirst completes
JoinConversation(s, c) ==
    /\ sockStatus[s] = "open"
    /\ IF IsParticipant(c, sockUser[s])
       THEN /\ rooms' = Join(s, c)
            /\ emitted' = << >>
       ELSE /\ rooms' = rooms
            /\ emitted' = SocketEmit(s,
                             ErrorEv(0, "You are not part of this conversation"))
    /\ UNCHANGED <<sockStatus, sockUser, onlineUsers,
                   conversations, messages, tasks, inbox>>

\* the handler does not call socket.leave
LeaveConversation_Stay(s, c) ==
    /\ sockStatus[s] = "open"
    /\ c \in rooms[s]
    /\ emitted' = << >>
    /\ UNCHANGED <<sockStatus, sockUser, onlineUsers, rooms,
                   conversations, messages, tasks, inbox>>

\* socket.leave(conversationId); leaving a room the socket is not in is a no-op
LeaveConversation(s, c) ==
    /\ sockStatus[s] = "open"
    /\ c \in rooms[s]
    /\ rooms' = [rooms EXCEPT ![s] = @ \ {c}]
    /\ emitted' = << >>
    /\ UNCHANGED <<sockStatus, sockUser, onlineUsers,
                   conversations, messages, tasks, inbox>>

\* ------------------------------------------------------------ send_message
\* the event arrives and the first persistence call completes: the findFirst
\* of findOrCreateConversation (recipientId given, no conversationId), or
\* the participant check (conversationId given; 0 stands for none)
SendMessage(s, cid, rid, content) ==
    /\ sockStatus[s] = "open"
    /\ IF cid = 0 /\ rid # None
       THEN /\ \E t \in Tasks, c \in FocResults(sockUser[s], rid) :
                /\ FreeTask(t)
                /\ tasks' = [tasks EXCEPT ![t] =
                       NewTask(IF c = 0 THEN "sm_create" ELSE "sm_check",
                               s, sockUser[s], rid, c, content)]
                /\ rooms' = IF c = 0 THEN rooms ELSE Join(s, c)
            /\ emitted' = << >>
       ELSE IF cid = 0
       THEN /\ emitted' = SocketEmit(s,
                   ErrorEv(0, "No conversation ID or recipient ID provided"))
            /\ UNCHANGED <<tasks, rooms>>
       ELSE IF IsParticipant(cid, sockUser[s])
       THEN /\ \E t \in Tasks :
                /\ FreeTask(t)
                /\ tasks' = [tasks EXCEPT ![t] =
                       NewTask("sm_msg", s, sockUser[s], rid, cid, content)]
            /\ emitted' = << >>
            /\ rooms' = rooms
       ELSE /\ emitted' = SocketEmit(s,
                   ErrorEv(0, "You are not part of this conversation"))
            /\ UNCHANGED <<tasks, rooms>>
    /\ UNCHANGED <<sockStatus, sockUser, onlineUsers,
                   conversations, messages, inbox>>

\* the create of findOrCreateConversation completes; the handler joins the room
SmCreate(t) ==
    /\ tasks[t].pc = "sm_create"
    /\ IF CreateRejected(tasks[t].user, tasks[t].recip)
       THEN /\ Finish(t)
            /\ emitted' = SocketEmit(tasks[t].sock,
                                     ErrorEv(0, "Failed to send message"))
            /\ UNCHANGED <<conversations, rooms>>
       ELSE /\ NumConvs < MaxConvs
            /\ conversations' = Append(conversations,
                                   NewConversation(tasks[t].user, tasks[t].recip))
            /\ rooms' = Join(tasks[t].sock, NumConvs + 1)
            /\ tasks' = [tasks EXCEPT ![t].conv = NumConvs + 1, ![t].pc = "sm_check"]
            /\ emitted' = << >>
    /\ UNCHANGED <<sockStatus, sockUser, onlineUsers, messages, inbox>>

\* the participant check after findOrCreateConversation completes
SmCheck(t) ==
    /\ tasks[t].pc = "sm_check"
    /\ IF IsParticipant(tasks[t].conv, tasks[t].user)
       THEN /\ tasks' = [tasks EXCEPT ![t].pc = "sm_msg"]
            /\ emitted' = << >>
       ELSE /\ Finish(t)
            /\ emitted' = SocketEmit(tasks[t].sock,
                             ErrorEv(0, "You are not part of this conversation"))
    /\ UNCHANGED <<sockStatus, sockUser, onlineUsers, rooms,
                   conversations, messages, inbox>>

NewMessage(c, u, content) ==
    [conv |-> c, sender |-> u, content |-> content, isRead |-> FALSE]

\* prisma.message.create completes
SmMsg(t) ==
    /\ tasks[t].pc = "sm_msg"
    /\ Len(messages) < MaxMsgs
    /\ messages' = Append(messages,
                     NewMessage(tasks[t].conv, tasks[t].user, tasks[t].content))
    /\ tasks' = [tasks EXCEPT ![t].msg = Len(messages) + 1, ![t].pc = "sm_upd"]
    /\ emitted' = << >>
    /\ UNCHANGED <<sockStatus, sockUser, onlineUsers, rooms,
                   conversations, inbox>>

\* socket.to(room) in place of io.to(room): the sender is left out
Recipients_ExceptSender(t) == RoomOthers(tasks[t].sock, tasks[t].conv)

\* the sockets io.to(room).emit("new_message") reaches
Recipients(t) == RoomMembers(tasks[t].conv)

\* prisma.conversation.update completes, then the broadcast
SmUpd(t) ==
    /\ tasks[t].pc = "sm_upd"
    /\ conversations' = [conversations EXCEPT
                            ![tasks[t].conv].updatedAt = Len(messages)]
    /\ emitted' = Fanout(MaxSockets, Recipients(t),
                     Ev(0, "new_message", tasks[t].user, tasks[t].conv,
                        tasks[t].msg, ""))
    /\ inbox' = [s \in Sockets |->
                   IF s \in Recipients(t) THEN Append(inbox[s], tasks[t].msg)
                                          ELSE inbox[s]]
    /\ Finish(t)
    /\ UNCHANGED <<sockStatus, sockUser, onlineUsers, rooms, messages>>

\* ------------------------------------------------------ typing / stop_typing
Typing(s, c) ==
    /\ sockStatus[s] = "open"
    /\ emitted' = Fanout(MaxSockets, RoomOthers(s, c),
                     Ev(0, "user_typing", sockUser[s], c, 0, ""))
    /\ UNCHANGED <<sockStatus, sockUser, onlineUsers, rooms,
                   conversations, messages, tasks, inbox>>

StopTyping(s, c) ==
    /\ sockStatus[s] = "open"
    /\ emitted' = Fanout(MaxSockets, RoomOthers(s, c),
                     Ev(0, "user_stopped_typing", sockUser[s], c, 0, ""))
    /\ UNCHANGED <<sockStatus, sockUser, onlineUsers, rooms,
                   conversations, messages, tasks, inbox>>

\* ------------------------------------------------------------ mark_as_read
\* the updateMany loses its senderId filter
MarkRead_AnySender(msgs, c, u) ==
    [i \in DOMAIN msgs |->
        IF msgs[i].conv = c /\ ~msgs[i].isRead
        THEN [msgs[i] EXCEPT !.isRead = TRUE]
        ELSE msgs[i]]

\* prisma.message.updateMany({ conversationId, senderId: { not }, isRead: false })
MarkRead(msgs, c, u) ==
    [i \in DOMAIN msgs |->
        IF msgs[i].conv = c /\ msgs[i].sender # u /\ ~msgs[i].isRead
        THEN [msgs[i] EXCEPT !.isRead = TRUE]
        ELSE msgs[i]]

\* the handler notifies the room without having updated the messages
MarkAsRead_NoUpdate(s, c) ==
    /\ sockStatus[s] = "open"
    /\ emitted' = Fanout(MaxSockets, RoomOthers(s, c),
                     Ev(0, "messages_read", sockUser[s], c, 0, ""))
    /\ UNCHANGED <<sockStatus, sockUser, onlineUsers, rooms,
                   conversations, messages, tasks, inbox>>

\* the event arrives and the updateMany completes, then socket.to(room).emit
MarkAsRead(s, c) ==
    /\ sockStatus[s] = "open"
    /\ messages' = MarkRead(messages, c, sockUser[s])
    /\ emitted' = Fanout(MaxSockets, RoomOthers(s, c),
                     Ev(0, "messages_read", sockUser[s], c, 0, ""))
    /\ UNCHANGED <<sockStatus, sockUser, onlineUsers, rooms,
                   conversations, tasks, inbox>>

\* ------------------------------------- REST POST /conversations/:id/messages
IsSpace(ch) == ch \in {" ", "\t", "\n"}

\* String.prototype.trim
RECURSIVE TrimStart(_)
TrimStart(str) ==
    IF str # << >> /\ IsSpace(Head(str)) THEN TrimStart(Tail(str)) ELSE str

RECURSIVE TrimEnd(_)
TrimEnd(str) ==
    IF str # << >> /\ IsSpace(str[Len(str)])
    THEN TrimEnd(SubSeq(str, 1, Len(str) - 1)) ELSE str

Trim(str) == TrimEnd(TrimStart(str))

\* the body check tests for the empty string only
ContentMissing_NoTrim(content) == content = << >>

\* !content || !content.trim()
ContentMissing(content) == content = << >> \/ Trim(content) = << >>

\* res.status(status).json(body): the response goes to the caller of the
\* request (to = 0); the body of an error response is a constant of the
\* route and names neither the caller nor the conversation, a 201 carries
\* the message
HttpEv(u, c, m, status) == Ev(0, "http", None, 0, m, status)

\* the request arrives (req.user is the session's user); the body check,
\* then the participant findFirst completes
RestPost(u, c, content) ==
    /\ IF ContentMissing(content)
       THEN /\ emitted' = <<HttpEv(u, c, 0, "400")>>
            /\ tasks' = tasks
       ELSE IF ~IsParticipant(c, u)
       THEN /\ emitted' = <<HttpEv(u, c, 0, "404")>>
            /\ tasks' = tasks
       ELSE /\ \E t \in Tasks :
                /\ FreeTask(t)
                /\ tasks' = [tasks EXCEPT ![t] =
                               NewTask("rp_msg", 0, u, None, c, content)]
            /\ emitted' = << >>
    /\ UNCHANGED <<sockStatus, sockUser, onlineUsers, rooms,
                   conversations, messages, inbox>>

\* prisma.message.create completes: 201 with the message
RpMsg(t) ==
    /\ tasks[t].pc = "rp_msg"
    /\ Len(messages) < MaxMsgs
    /\ messages' = Append(messages,
                     NewMessage(tasks[t].conv, tasks[t].user, tasks[t].content))
    /\ emitted' = <<HttpEv(tasks[t].user, tasks[t].conv, Len(messages) + 1, "201")>>
    /\ Finish(t)
    /\ UNCHANGED <<sockStatus, sockUser, onlineUsers, rooms,
                   conversations, inbox>>

\* -------------------------------------- REST GET /conversations/:id/messages
\* prisma.message.findMany({ where: { conversationId }, orderBy createdAt asc }):
\* the ids of the first n messages that belong to c, oldest first
RECURSIVE MessageIdsOf(_, _)
MessageIdsOf(n, c) ==
    IF n = 0 THEN << >>
    ELSE MessageIdsOf(n - 1, c)
         \o (IF messages[n].conv = c THEN <<n>> ELSE << >>)

\* the route answers 403 to a caller who is no participant of an existing
\* conversation
RestGet_Forbidden(u, c) ==
    /\ IF ~Exists(c)
       THEN /\ emitted' = <<HttpEv(u, c, 0, "404")>>
            /\ tasks' = tasks
       ELSE IF ~IsParticipant(c, u)
       THEN /\ emitted' = <<HttpEv(u, c, 0, "403")>>
            /\ tasks' = tasks
       ELSE /\ \E t \in Tasks :
                /\ FreeTask(t)
                /\ tasks' = [tasks EXCEPT ![t] =
                               NewTask("rg_list", 0, u, None, c, << >>)]
            /\ emitted' = << >>
    /\ UNCHANGED <<sockStatus, sockUser, onlineUsers, rooms,
                   conversations, messages, inbox>>

\* the request arrives and the participant findFirst completes
RestGet(u, c) ==
    /\ IF ~IsParticipant(c, u)
       THEN /\ emitted' = <<HttpEv(u, c, 0, "404")>>
            /\ tasks' = tasks
       ELSE /\ \E t \in Tasks :
                /\ FreeTask(t)
                /\ tasks' = [tasks EXCEPT ![t] =
                               NewTask("rg_list", 0, u, None, c, << >>)]
            /\ emitted' = << >>
    /\ UNCHANGED <<sockStatus, sockUser, onlineUsers, rooms,
                   conversations, messages, inbox>>

\* prisma.message.findMany completes: 200, then the messages in order (the
\* response is the status line followed by one item per message)
RgList(t) ==
    /\ tasks[t].pc = "rg_list"
    /\ emitted' = <<HttpEv(tasks[t].user, tasks[t].conv, 0, "200")>>
                  \o [i \in 1..Len(MessageIdsOf(Len(messages), tasks[t].conv)) |->
                        Ev(0, "http_item", None, 0,
                           MessageIdsOf(Len(messages), tasks[t].conv)[i], "")]
    /\ Finish(t)
    /\ UNCHANGED <<sockStatus, sockUser, onlineUsers, rooms,
                   conversations, messages, inbox>>

\* ------------------------------------------------------ persistence failure
\* the pending persistence call of a handler throws: the handler's catch
CatchEv(t) ==
    IF tasks[t].pc \in {"sc_create", "sc_fetch"}
    THEN SocketEmit(tasks[t].sock, ErrorEv(0, "Failed to start conversation"))
    ELSE IF tasks[t].pc \in {"rp_msg", "rg_list"}
    THEN <<HttpEv(tasks[t].user, tasks[t].conv, 0, "500")>>
    ELSE SocketEmit(tasks[t].sock, ErrorEv(0, "Failed to send message"))

Fail(t) ==
    /\ ~IsIdle(t)
    /\ emitted' = CatchEv(t)
    /\ Finish(t)
    /\ UNCHANGED <<sockStatus, sockUser, onlineUsers, rooms,
                   conversations, messages, inbox>>

\* the first persistence call of start_conversation throws: the catch
StartConversationFails(s) ==
    /\ sockStatus[s] = "open"
    /\ emitted' = SocketEmit(s, ErrorEv(0, "Failed to start conversation"))
    /\ UNCHANGED <<sockStatus, sockUser, onlineUsers, rooms,
                   conversations, messages, tasks, inbox>>

\* the first persistence call of send_message throws: the catch
SendMessageFails(s) ==
    /\ sockStatus[s] = "open"
    /\ emitted' = SocketEmit(s, ErrorEv(0, "Failed to send message"))
    /\ UNCHANGED <<sockStatus, sockUser, onlineUsers, rooms,
                   conversations, messages, tasks, inbox>>

\* the updateMany of mark_as_read throws: the catch logs and emits nothing
MarkAsReadFails(s) ==
    /\ sockStatus[s] = "open"
    /\ emitted' = << >>
    /\ UNCHANGED <<sockStatus, sockUser, onlineUsers, rooms,
                   conversations, messages, tasks, inbox>>

\* the findFirst of join_conversation throws: the async handler has no
\* try/catch, its promise rejects and nobody handles the rejection.  What
\* Node.js does with an unhandled rejection depends on the runtime: it logs
\* a warning and goes on, or it raises an uncaught exception that ends the
\* process, and with it every connection, room and the onlineUsers map.
JoinConversationFails(s, exits) ==
    /\ sockStatus[s] = "open"
    /\ emitted' = << >>
    /\ IF exits
       THEN /\ sockStatus' = [o \in Sockets |->
                                IF sockStatus[o] = "open" THEN "closed"
                                                          ELSE sockStatus[o]]
            /\ rooms' = [o \in Sockets |-> {}]
            /\ onlineUsers' = [u \in Users |-> 0]
            /\ tasks' = [t \in Tasks |-> IdleTask]
       ELSE UNCHANGED <<sockStatus, rooms, onlineUsers, tasks>>
    /\ UNCHANGED <<sockUser, conversations, messages, inbox>>

\* ---------------------------------------------------------- specifications
\* Presence: clients connect and disconnect.  No other handler writes
\* sockStatus, sockUser or onlineUsers.
NextPresence ==
    \/ \E s \in Sockets, claimed \in Users \cup {Ghost, None} : Connect(s, claimed)
    \/ \E s \in Sockets, claimed \in Users \cup {Ghost} : ConnectLookupFails(s, claimed)
    \/ \E s \in Sockets : Disconnect(s)

SpecPresence == Init /\ [][NextPresence]_vars

\* Conversation directory and rooms: clients connect, open conversations,
\* join and leave rooms, with handlers interleaving at their awaits.
Next ==
    \/ \E s \in ChatSockets, claimed \in Users \cup {Ghost, None} : Connect(s, claimed)
    \/ \E s \in ChatSockets, claimed \in Users \cup {Ghost} : ConnectLookupFails(s, claimed)
    \/ \E s \in Sockets : Disconnect(s)
    \/ \E s \in Sockets, rid \in Users \cup {Ghost} : StartConversation(s, rid)
    \/ \E t \in Tasks : ScCreate(t)
    \/ \E t \in Tasks : ScFetch(t)
    \/ \E s \in Sockets, c \in ConvInputs : JoinConversation(s, c)
    \/ \E s \in Sockets, c \in ConvIds : LeaveConversation(s, c)
    \/ \E t \in Tasks : Fail(t)

Spec == Init /\ [][Next]_vars

\* A state Spec reaches: u1 and u2 are connected, u1 has opened a
\* conversation with u2 and one with u3, nobody is in a room, no handler
\* is in flight.
ChatSetup ==
    /\ sockStatus = [s \in Sockets |-> IF s \in 1..2 THEN "open" ELSE "new"]
    /\ sockUser = [s \in Sockets |-> IF s \in 1..2 THEN UserOrder[s] ELSE None]
    /\ onlineUsers = [u \in Users |-> IF u = "u1" THEN 1 ELSE IF u = "u2" THEN 2 ELSE 0]
    /\ rooms = [s \in Sockets |-> {}]
    /\ conversations = << [participants |-> {"u1", "u2"}, updatedAt |-> 0],
                          [participants |-> {"u1", "u3"}, updatedAt |-> 0] >>
    /\ messages = << >>
    /\ tasks = [t \in Tasks |-> IdleTask]
    /\ inbox = [s \in Sockets |-> << >>]

InitChat == ChatSetup /\ emitted = << >>

NoHandler == \A t \in Tasks : IsIdle(t)

\* Message ledger: from ChatSetup, clients join and leave rooms and send
\* into conversations over the socket and over REST; a client waits for its
\* answer before the next send.
NextLedger ==
    \/ \E s \in Sockets, c \in ConvInputs : JoinConversation(s, c)
    \/ \E s \in Sockets, c \in ConvIds : LeaveConversation(s, c)
    \/ \E s \in Sockets, c \in ConvInputs \cup {0} :
            NoHandler /\ SendMessage(s, c, None, <<"h">>)
    \/ \E t \in Tasks : SmMsg(t)
    \/ \E t \in Tasks : SmUpd(t)
    \/ \E u \in Users, c \in ConvInputs, content \in Contents :
            NoHandler /\ RestPost(u, c, content)
    \/ \E t \in Tasks : RpMsg(t)
    \/ \E t \in Tasks : Fail(t)

SpecLedger == InitChat /\ [][NextLedger]_vars

\* Fan-out: from ChatSetup, send_message handlers run concurrently while
\* sockets join, leave and disconnect.
NextOrder ==
    \/ \E s \in Sockets : Disconnect(s)
    \/ \E s \in Sockets, c \in ConvInputs : JoinConversation(s, c)
    \/ \E s \in Sockets, c \in ConvIds : LeaveConversation(s, c)
    \/ \E s \in Sockets, c \in ConvInputs \cup {0} : SendMessage(s, c, None, <<"h">>)
    \/ \E t \in Tasks : SmMsg(t)
    \/ \E t \in Tasks : SmUpd(t)
    \/ \E t \in Tasks : Fail(t)

SpecOrder == InitChat /\ [][NextOrder]_vars

\* Message bodies: from ChatSetup, every body is sent over the socket and
\* over REST, one request at a time.
NextContent ==
    \/ \E s \in Sockets, c \in ConvInputs : JoinConversation(s, c)
    \/ \E s \in Sockets, c \in ConvInputs \cup {0}, content \in Contents :
            NoHandler /\ SendMessage(s, c, None, content)
    \/ \E t \in Tasks : SmMsg(t)
    \/ \E t \in Tasks : SmUpd(t)
    \/ \E u \in Users, c \in ConvInputs, content \in Contents :
            NoHandler /\ RestPost(u, c, content)
    \/ \E t \in Tasks : RpMsg(t)

SpecContent == InitChat /\ [][NextContent]_vars

\* Read receipts: from ChatSetup, clients join rooms, send and mark
\* conversations as read, one send at a time; the read update may throw.
NextRead ==
    \/ \E s \in Sockets, c \in ConvInputs : JoinConversation(s, c)
    \/ \E s \in Sockets, c \in ConvInputs :
            NoHandler /\ SendMessage(s, c, None, <<"h">>)
    \/ \E t \in Tasks : SmMsg(t)
    \/ \E t \in Tasks : SmUpd(t)
    \/ \E s \in Sockets, c \in ConvInputs : MarkAsRead(s, c)
    \/ \E s \in Sockets : MarkAsReadFails(s)

SpecRead == InitChat /\ [][NextRead]_vars

\* Direct messages: u1 and u2 are connected and no conversation exists yet;
\* they open conversations and send to recipients, known, unknown or
\* themselves, one request at a time.
InitDirect ==
    /\ sockStatus = [s \in Sockets |-> IF s \in 1..2 THEN "open" ELSE "new"]
    /\ sockUser = [s \in Sockets |-> IF s \in 1..2 THEN UserOrder[s] ELSE None]
    /\ onlineUsers = [u \in Users |-> IF u = "u1" THEN 1 ELSE IF u = "u2" THEN 2 ELSE 0]
    /\ rooms = [s \in Sockets |-> {}]
    /\ conversations = << >>
    /\ messages = << >>
    /\ tasks = [t \in Tasks |-> IdleTask]
    /\ emitted = << >>
    /\ inbox = [s \in Sockets |-> << >>]

NextDirect ==
    \/ \E s \in Sockets, rid \in Users \cup {Ghost} :
            NoHandler /\ StartConversation(s, rid)
    \/ \E t \in Tasks : ScCreate(t)
    \/ \E t \in Tasks : ScFetch(t)
    \/ \E s \in Sockets, rid \in Users \cup {Ghost} :
            NoHandler /\ SendMessage(s, 0, rid, <<"h">>)
    \/ \E t \in Tasks : SmCreate(t)
    \/ \E t \in Tasks : SmCheck(t)
    \/ \E t \in Tasks : SmMsg(t)
    \/ \E t \in Tasks : SmUpd(t)
    \/ \E t \in Tasks : Fail(t)

SpecDirect == InitDirect /\ [][NextDirect]_vars

\* REST: from ChatSetup, the three users read and post over HTTP while
\* requests interleave at their awaits.
NextRest ==
    \/ \E u \in Users, c \in ConvInputs : RestGet(u, c)
    \/ \E t \in Tasks : RgList(t)
    \/ \E u \in Users, c \in ConvInputs, content \in Bodies : RestPost(u, c, content)
    \/ \E t \in Tasks : RpMsg(t)
    \/ \E t \in Tasks : Fail(t)

SpecRest == InitChat /\ [][NextRest]_vars

\* Failures: from ChatSetup, the socket handlers run one request at a time
\* and any persistence call may throw.
NextFailure ==
    \/ \E s \in Sockets, c \in ConvInputs : JoinConversation(s, c)
    \/ \E s \in Sockets, exits \in BOOLEAN : JoinConversationFails(s, exits)
    \/ \E s \in Sockets, rid \in Users \cup {Ghost} :
            NoHandler /\ StartConversation(s, rid)
    \/ \E s \in Sockets : StartConversationFails(s)
    \/ \E t \in Tasks : ScCreate(t)
    \/ \E t \in Tasks : ScFetch(t)
    \/ \E s \in Sockets, c \in ConvInputs \cup {0} :
            NoHandler /\ SendMessage(s, c, None, <<"h">>)
    \/ \E s \in Sockets : SendMessageFails(s)
    \/ \E t \in Tasks : SmMsg(t)
    \/ \E t \in Tasks : SmUpd(t)
    \/ \E s \in Sockets, c \in ConvInputs : MarkAsRead(s, c)
    \/ \E s \in Sockets : MarkAsReadFails(s)
    \/ \E t \in Tasks : Fail(t)

SpecFailure == InitChat /\ [][NextFailure]_vars

\* Typing indicators: from ChatSetup, a third connection may open, sockets
\* join and leave rooms, disconnect, and signal typing.
NextTyping ==
    \/ \E s \in Sockets, claimed \in Users \cup {Ghost, None} : Connect(s, claimed)
    \/ \E s \in Sockets : Disconnect(s)
    \/ \E s \in Sockets, c \in ConvInputs : JoinConversation(s, c)
    \/ \E s \in Sockets, c \in ConvIds : LeaveConversation(s, c)
    \/ \E s \in Sockets, c \in ConvInputs : Typing(s, c)
    \/ \E s \in Sockets, c \in ConvInputs : StopTyping(s, c)

SpecTyping == InitChat /\ [][NextTyping]_vars

\* Leaving: from ChatSetup, sockets join and leave rooms while messages,
\* typing signals and read receipts go to the rooms, one send at a time.
NextLeave ==
    \/ \E s \in Sockets, c \in ConvInputs : JoinConversation(s, c)
    \/ \E s \in Sockets, c \in ConvIds : LeaveConversation(s, c)
    \/ \E s \in Sockets, c \in ConvIds :
            NoHandler /\ SendMessage(s, c, None, <<"h">>)
    \/ \E t \in Tasks : SmMsg(t)
    \/ \E t \in Tasks : SmUpd(t)
    \/ \E s \in Sockets, c \in ConvIds : Typing(s, c)
    \/ \E s \in Sockets, c \in ConvIds : StopTyping(s, c)
    \/ \E s \in Sockets, c \in ConvIds : MarkAsRead(s, c)

SpecLeave == InitChat /\ [][NextLeave]_vars

\* Lookup: findOrCreateConversation over any conversation table the schema
\* admits, with one, two or three participants per conversation.  u1 and u2
\* are connected and open conversations, one request at a time.
InitLookup ==
    /\ sockStatus = [s \in Sockets |-> IF s \in 1..2 THEN "open" ELSE "new"]
    /\ sockUser = [s \in Sockets |-> IF s \in 1..2 THEN UserOrder[s] ELSE None]
    /\ onlineUsers = [u \in Users |-> IF u = "u1" THEN 1 ELSE IF u = "u2" THEN 2 ELSE 0]
    /\ rooms = [s \in Sockets |-> {}]
    /\ \E n \in 0..MaxConvs :
          conversations \in [1..n -> [participants : SUBSET Users \ {{}},
                                      updatedAt : {0}]]
    /\ messages = << >>
    /\ tasks = [t \in Tasks |-> IdleTask]
    /\ emitted = << >>
    /\ inbox = [s \in Sockets |-> << >>]

NextLookup ==
    \/ \E s \in Sockets, rid \in Users : NoHandler /\ StartConversation(s, rid)
    \/ \E t \in Tasks : ScCreate(t)
    \/ \E t \in Tasks : ScFetch(t)

SpecLookup == InitLookup /\ [][NextLookup]_vars

\* History: u1 has sent a few messages, or about Take of them, at most one
\* into the conversation with u3 and the others into the one with u2; u1
\* and u2 open conversations, one request at a time.
InitReady ==
    /\ sockStatus = [s \in Sockets |-> IF s \in 1..2 THEN "open" ELSE "new"]
    /\ sockUser = [s \in Sockets |-> IF s \in 1..2 THEN UserOrder[s] ELSE None]
    /\ onlineUsers = [u \in Users |-> IF u = "u1" THEN 1 ELSE IF u = "u2" THEN 2 ELSE 0]
    /\ rooms = [s \in Sockets |-> {}]
    /\ conversations = << [participants |-> {"u1", "u2"}, updatedAt |-> 0],
                          [participants |-> {"u1", "u3"}, updatedAt |-> 0] >>
    /\ \E n \in (0..2) \cup ((Take - 1)..(Take + 2)) : \E k \in 0..n :
          messages = [i \in 1..n |->
                        NewMessage(IF i = k THEN 2 ELSE 1, "u1", <<"h">>)]
    /\ tasks = [t \in Tasks |-> IdleTask]
    /\ emitted = << >>
    /\ inbox = [s \in Sockets |-> << >>]

NextReady ==
    \/ \E s \in Sockets, rid \in Users : NoHandler /\ StartConversation(s, rid)
    \/ \E t \in Tasks : ScCreate(t)
    \/ \E t \in Tasks : ScFetch(t)

SpecReady == InitReady /\ [][NextReady]_vars

\* Rooms: as SpecDirect, and the connections also join and leave rooms by
\* conversation id.
NextRooms ==
    \/ NextDirect
    \/ \E s \in Sockets, c \in ConvInputs : JoinConversation(s, c)
    \/ \E s \in Sockets, c \in ConvIds : LeaveConversation(s, c)

SpecRooms == InitDirect /\ [][NextRooms]_vars

\* ================================================================= claims
NotParticipantText == "You are not part of this conversation"

\* u is a participant row of conversation c
Member(c, u) == c \in 1..Len(conversations) /\ u \in conversations[c].participants

\* how many events named ev the sequence delivers to socket s
CountEv(seq, s, ev) ==
    Cardinality({i \in DOMAIN seq : seq[i].to = s /\ seq[i].ev = ev})

\* C1: in every reachable state at most one conversation has the participant
\* set {A, B}, for every pair of users, under any interleaving of the handlers
\* that call findOrCreateConversation.
UniqueDirectConversation ==
    \A c1, c2 \in 1..Len(conversations) :
        (/\ conversations[c1].participants = conversations[c2].participants
         /\ Cardinality(conversations[c1].participants) = 2) => c1 = c2

\* C2: a findOrCreateConversation(A, B) whose lookup runs when a conversation
\* of exactly {A, B} exists returns such a conversation (the one, when no race
\* has duplicated it) and goes on to create nothing.
FocIdempotent ==
    [][\A t \in Tasks :
          (tasks[t].pc = "idle" /\ tasks'[t].pc \in {"sc_create", "sc_fetch"}) =>
              LET pair == {tasks'[t].user, tasks'[t].recip}
                  existing == {c \in 1..Len(conversations) :
                                  conversations[c].participants = pair}
              IN  existing # {} =>
                      /\ tasks'[t].pc = "sc_fetch"
                      /\ tasks'[t].conv \in existing
                      /\ conversations' = conversations]_vars

\* two calls resolved to the same conversation: one of them found what the
\* other had created or found
FocFoundExisting ==
    \E t1, t2 \in Tasks :
        /\ t1 # t2
        /\ tasks[t1].pc = "sc_fetch" /\ tasks[t2].pc = "sc_fetch"
        /\ tasks[t1].conv = tasks[t2].conv
        /\ Len(conversations) = 1

\* C3: a join_conversation(C) from a connection whose user is no participant
\* of C gets one error event, sent to that connection only, and the
\* connection is added to no room.
JoinRejectsOutsider ==
    [][\A s \in Sockets, c \in ConvInputs :
          (~Member(c, sockUser[s]) /\ JoinConversation(s, c)) =>
              /\ rooms' = rooms
              /\ emitted' = <<Ev(s, "error", None, 0, 0, NotParticipantText)>>]_vars

\* an outsider of an existing conversation has just been turned away
OutsiderTurnedAway ==
    \E s \in Sockets, c \in 1..Len(conversations) :
        /\ sockStatus[s] = "open"
        /\ sockUser[s] \notin conversations[c].participants
        /\ c \notin rooms[s]
        /\ emitted = <<Ev(s, "error", None, 0, 0, NotParticipantText)>>

\* C4: every persisted message's sender is a participant of its conversation;
\* a send_message with a conversationId, or a REST POST, from a non-participant
\* creates no message, starts no broadcast and answers the caller alone with
\* an error.
SenderIsParticipant ==
    /\ [](\A i \in DOMAIN messages : Member(messages[i].conv, messages[i].sender))
    /\ [][\A c \in ConvInputs :
            /\ \A s \in Sockets :
                 (~Member(c, sockUser[s]) /\ SendMessage(s, c, None, <<"h">>)) =>
                     /\ messages' = messages
                     /\ tasks' = tasks
                     /\ emitted' = <<Ev(s, "error", None, 0, 0, NotParticipantText)>>
            /\ \A u \in Users, content \in Contents :
                 (~Member(c, u) /\ RestPost(u, c, content)) =>
                     /\ messages' = messages
                     /\ tasks' = tasks
                     /\ Len(emitted') = 1
                     /\ emitted'[1].to = 0
                     /\ emitted'[1].ev = "http"
                     /\ emitted'[1].text \in {"400", "404"}]_vars

\* a REST caller was answered 404 while the ledger already holds messages
\* and sockets sit in rooms
OutsiderPostRefused ==
    /\ Len(emitted) = 1
    /\ emitted[1].text = "404"
    /\ Len(messages) > 0
    /\ \E s \in Sockets : rooms[s] # {}

\* C5: the broadcast of a message appended by send_message delivers exactly
\* one new_message carrying it to every connection in the room at that time,
\* the sender's included, and nothing to any other connection.
BroadcastReachesRoom ==
    [][\A t \in Tasks :
          SmUpd(t) =>
              LET m == tasks[t].msg
                  c == messages[m].conv
              IN  /\ \A s \in Sockets :
                        LET inRoom == sockStatus[s] = "open" /\ c \in rooms[s]
                            got == {i \in DOMAIN emitted' : emitted'[i].to = s}
                        IN  /\ Cardinality(got) = (IF inRoom THEN 1 ELSE 0)
                            /\ inbox'[s] = (IF inRoom THEN Append(inbox[s], m)
                                                      ELSE inbox[s])
                  /\ \A i \in DOMAIN emitted' :
                        /\ emitted'[i].ev = "new_message"
                        /\ emitted'[i].msg = m
                        /\ emitted'[i].conv = c
                        /\ emitted'[i].user = messages[m].sender]_vars

\* a broadcast has just reached the sender's own connection and another one
SenderAndPeerReceived ==
    \E i, j \in DOMAIN emitted :
        /\ emitted[i].ev = "new_message" /\ emitted[j].ev = "new_message"
        /\ emitted[i].to # emitted[j].to
        /\ sockUser[emitted[i].to] = emitted[i].user

\* C6: a connection in the room for the broadcasts of two messages of one
\* conversation receives them in the order the ledger accepted them.
DeliveredInLedgerOrder ==
    \A s \in Sockets : \A i, j \in DOMAIN inbox[s] :
        (i < j /\ messages[inbox[s][i]].conv = messages[inbox[s][j]].conv)
            => inbox[s][i] < inbox[s][j]

\* C7: no message with an empty or all-whitespace body is ever persisted.
NoBlankMessage ==
    \A i \in DOMAIN messages :
        \E k \in DOMAIN messages[i].content : messages[i].content[k] # " "

\* C8: mark_as_read(C) by user U sets the read flag on exactly the unread
\* messages of C that U did not send, and changes no other message.
MarkAsReadExact ==
    [][\A s \in Sockets, c \in ConvInputs :
          MarkAsRead(s, c) =>
              /\ DOMAIN messages' = DOMAIN messages
              /\ \A i \in DOMAIN messages :
                    LET hit == /\ messages[i].conv = c
                               /\ messages[i].sender # sockUser[s]
                               /\ ~messages[i].isRead
                    IN  messages'[i] = [messages[i] EXCEPT !.isRead = (@ \/ hit)]]_vars

\* in one conversation a message is read and another, by the reader, is not
ReadOthersNotOwn ==
    \E i, j \in DOMAIN messages :
        /\ messages[i].conv = messages[j].conv
        /\ messages[i].sender # messages[j].sender
        /\ messages[i].isRead /\ ~messages[j].isRead
        /\ Len(emitted) > 0 /\ emitted[1].ev = "messages_read"
        /\ emitted[1].user = messages[j].sender

\* C9: a user is in the Presence Registry exactly when one of the user's
\* connections is open.
PresenceMatchesConnections ==
    \A u \in Users :
        (onlineUsers[u] # 0) <=>
            (\E s \in Sockets : sockStatus[s] = "open" /\ sockUser[s] = u)

\* C10: a disconnect of a connection of U delivers exactly one user_offline{U}
\* to every connected client, and leaves U out of the Presence Registry when
\* no other connection of U is open.
DisconnectAnnouncesOffline ==
    [][\A s \in Sockets :
          Disconnect(s) =>
              LET u == sockUser[s] IN
              /\ \A o \in Sockets :
                    CountEv(emitted', o, "user_offline")
                        = (IF sockStatus'[o] = "open" THEN 1 ELSE 0)
              /\ \A i \in DOMAIN emitted' :
                    emitted'[i].ev = "user_offline" /\ emitted'[i].user = u
              /\ (~\E o \in Sockets : sockStatus'[o] = "open" /\ sockUser[o] = u)
                    => onlineUsers'[u] = 0]_vars

\* the last connection of a user has closed while another client watched
LastConnectionClosed ==
    \E s \in Sockets :
        /\ sockStatus[s] = "closed"
        /\ ~\E o \in Sockets : sockStatus[o] = "open" /\ sockUser[o] = sockUser[s]
        /\ Len(emitted) > 0
        /\ emitted[1].ev = "user_offline" /\ emitted[1].user = sockUser[s]

\* C11: a connection attempt is accepted only when its handshake names a row
\* of the user table; an attempt with no id, an unknown id or a failing
\* lookup is rejected, gets no userId, no Presence Registry entry and no
\* user_online broadcast, and no handler ever runs for it.
OnlyVerifiedUsersConnect ==
    /\ [](\A s \in Sockets :
            /\ sockStatus[s] \in {"open", "closed"} => sockUser[s] \in Users
            /\ sockStatus[s] = "rejected" =>
                  /\ sockUser[s] = None
                  /\ rooms[s] = {}
                  /\ inbox[s] = << >>
                  /\ \A u \in Users : onlineUsers[u] # s
                  /\ \A t \in Tasks : tasks[t].sock # s
                  /\ \A i \in DOMAIN emitted : emitted[i].to # s)
    /\ [][\A s \in Sockets, claimed \in Users \cup {Ghost, None} :
            /\ Connect(s, claimed) =>
                  IF claimed \in Users
                  THEN sockStatus'[s] = "open" /\ sockUser'[s] = claimed
                  ELSE /\ sockStatus'[s] = "rejected"
                       /\ onlineUsers' = onlineUsers
                       /\ emitted' = << >>
                       /\ tasks' = tasks
            /\ ConnectLookupFails(s, claimed) =>
                  /\ sockStatus'[s] = "rejected"
                  /\ onlineUsers' = onlineUsers
                  /\ emitted' = << >>
                  /\ tasks' = tasks]_vars

\* one attempt was rejected while another connection went on to open a
\* conversation and sit in its room
RejectedBesideActive ==
    /\ \E s \in Sockets : sockStatus[s] = "rejected"
    /\ \E o \in Sockets : sockStatus[o] = "open" /\ rooms[o] # {}

\* C12: in every reachable state, also after creation attempts that fail
\* (unknown recipient, recipient equal to the caller, persistence failure),
\* every conversation has exactly two participants, two distinct users; a
\* failed attempt leaves the conversation table as it was.
TwoDistinctParticipants ==
    /\ [](\A c \in 1..Len(conversations) :
            /\ Cardinality(conversations[c].participants) = 2
            /\ conversations[c].participants \subseteq Users)
    /\ [][\A t \in Tasks :
            /\ (tasks[t].pc \in {"sc_create", "sm_create"}
                 /\ (tasks[t].recip \notin Users \/ tasks[t].recip = tasks[t].user)
                 /\ tasks'[t].pc = "idle")
                   => conversations' = conversations
            /\ Fail(t) => conversations' = conversations]_vars

\* a creation for the caller alone or for an unknown user has just been
\* refused while a conversation exists
CreationRefused ==
    /\ Len(conversations) > 0
    /\ \E s \in Sockets :
          emitted = <<Ev(s, "error", None, 0, 0, "Failed to send message")>>
    /\ messages = << >>

\* C13: a start_conversation(B) from a connection of A, B an existing user
\* other than A with no conversation {A, B} yet, creates a conversation with
\* participants {A, B}, adds A's connection (and no other) to its room and
\* sends conversation_ready to A's connection only.
StartConversationEffects ==
    [][\A t \in Tasks :
          /\ (/\ tasks[t].pc = "idle"
               /\ tasks'[t].pc \in {"sc_create", "sc_fetch"}
               /\ tasks'[t].recip # tasks'[t].user
               /\ ~\E c \in 1..Len(conversations) :
                      conversations[c].participants
                          = {tasks'[t].user, tasks'[t].recip})
                 => /\ tasks'[t].pc = "sc_create"
                    /\ tasks'[t].user = sockUser[tasks'[t].sock]
                    /\ emitted' = << >>
                    /\ rooms' = rooms
          /\ (tasks[t].recip \in Users \ {tasks[t].user} /\ ScCreate(t))
                 => /\ Len(conversations') = Len(conversations) + 1
                    /\ SubSeq(conversations', 1, Len(conversations)) = conversations
                    /\ conversations'[Len(conversations')].participants
                          = {tasks[t].user, tasks[t].recip}
                    /\ tasks'[t].conv = Len(conversations')
                    /\ tasks'[t].pc = "sc_fetch"
                    /\ emitted' = << >>
                    /\ rooms' = rooms
          /\ ScFetch(t)
                 => /\ rooms' = [rooms EXCEPT ![tasks[t].sock] = @ \cup {tasks[t].conv}]
                    /\ conversations' = conversations
                    /\ \A i \in DOMAIN emitted' :
                          emitted'[i] = Ev(tasks[t].sock, "conversation_ready",
                                           None, tasks[t].conv, 0, "")
                    /\ Len(emitted')
                          = (IF sockStatus[tasks[t].sock] = "open" THEN 1 ELSE 0)]_vars

\* the caller has just been answered and sits in the room, while the other
\* participant is connected and sits in no room
CallerAloneInRoom ==
    \E s, o \in Sockets :
        /\ Len(emitted) = 1 /\ emitted[1].to = s
        /\ emitted[1].ev = "conversation_ready"
        /\ emitted[1].conv \in rooms[s]
        /\ sockStatus[o] = "open"
        /\ conversations[emitted[1].conv].participants = {sockUser[s], sockUser[o]}
        /\ sockUser[s] # sockUser[o]
        /\ rooms[o] = {}

\* a body with no character other than spaces
Blank(content) == \A k \in DOMAIN content : content[k] = " "

\* C14: a REST caller who is no participant gets from GET and from POST
\* /conversations/:id/messages the same response, a 404 with the route's
\* constant body (a 400 from POST when the body is blank), whether the
\* conversation exists or not, and the request changes nothing.
NotFoundHidesExistence ==
    [][\A u \in Users, c \in ConvInputs :
          ~Member(c, u) =>
              /\ RestGet(u, c) =>
                    /\ emitted' = <<Ev(0, "http", None, 0, 0, "404")>>
                    /\ UNCHANGED <<tasks, messages, conversations, rooms>>
              /\ \A content \in Bodies :
                    RestPost(u, c, content) =>
                        /\ emitted' = <<Ev(0, "http", None, 0, 0,
                                          IF Blank(content) THEN "400" ELSE "404")>>
                        /\ UNCHANGED <<tasks, messages, conversations, rooms>>]_vars

\* a caller was answered 404 while a conversation of the other two users
\* holds a message
OutsiderSeesNotFound ==
    /\ emitted = <<Ev(0, "http", None, 0, 0, "404")>>
    /\ \E i \in DOMAIN messages : \E u \in Users :
          u \notin conversations[messages[i].conv].participants

\* C15: REST POST /conversations/:id/messages answers 400 to a missing, empty
\* or all-whitespace body and 404 to a caller who is no participant, and
\* persists nothing in both cases; otherwise its message.create appends
\* exactly one message, authored by the caller with the body as sent, and
\* the answer is 201 with that message.
RestPostOutcomes ==
    [][/\ \A u \in Users, c \in ConvInputs, content \in Bodies :
            RestPost(u, c, content) =>
                /\ messages' = messages
                /\ conversations' = conversations
                /\ IF Blank(content)
                   THEN emitted' = <<Ev(0, "http", None, 0, 0, "400")>> /\ tasks' = tasks
                   ELSE IF ~Member(c, u)
                   THEN emitted' = <<Ev(0, "http", None, 0, 0, "404")>> /\ tasks' = tasks
                   ELSE /\ emitted' = << >>
                        /\ \E t \in Tasks :
                              /\ tasks[t].pc = "idle"
                              /\ tasks'[t].pc = "rp_msg"
                              /\ tasks'[t].user = u
                              /\ tasks'[t].conv = c
                              /\ tasks'[t].content = content
       /\ \A t \in Tasks :
            RpMsg(t) =>
                /\ messages' = Append(messages,
                                  [conv |-> tasks[t].conv, sender |-> tasks[t].user,
                                   content |-> tasks[t].content, isRead |-> FALSE])
                /\ emitted' = <<Ev(0, "http", None, 0, Len(messages'), "201")>>]_vars

\* a 201 has just answered a post whose body starts with a space
PostCreated ==
    /\ Len(emitted) = 1
    /\ emitted[1].text = "201"
    /\ emitted[1].msg = Len(messages)
    /\ messages[Len(messages)].content = <<" ", "h">>

\* C16: for the same conversation, caller and body, the send_message event
\* (with a conversationId) goes on to persist exactly when REST POST would,
\* and a completed REST append leaves the store as the event's append does:
\* the same message record and the conversation's last activity moved to it.
RestMatchesSocket ==
    [][/\ \A s \in Sockets, c \in ConvInputs, content \in Contents :
            SendMessage(s, c, None, content) =>
                ((tasks' # tasks)
                    <=> ENABLED (RestPost(sockUser[s], c, content) /\ tasks' # tasks))
       /\ \A t \in Tasks :
            RpMsg(t) =>
                /\ messages' = Append(messages,
                                  NewMessage(tasks[t].conv, tasks[t].user,
                                             tasks[t].content))
                /\ conversations'[tasks[t].conv].updatedAt = Len(messages')]_vars

\* C17: once the operation that appended a message has completed, the
\* conversation's last-activity value is not older than that message.
LastActivityCoversMessages ==
    \A i \in DOMAIN messages :
        (\A t \in Tasks : tasks[t].msg # i)
            => conversations[messages[i].conv].updatedAt >= i

\* the connection a failing handler runs for: a persistence call of a
\* handler for s throws, or the handler refuses the request
FailsFor(s) ==
    \/ \E t \in Tasks : tasks[t].sock = s /\ Fail(t)
    \/ StartConversationFails(s)
    \/ SendMessageFails(s)
    \/ MarkAsReadFails(s)
    \/ \E exits \in BOOLEAN : JoinConversationFails(s, exits)

RefusedFor(s) ==
    \/ StartConversation(s, Ghost)
    \/ \E t \in Tasks :
          tasks[t].sock = s /\ tasks[t].recip = tasks[t].user /\ ScCreate(t)
    \/ \E c \in ConvInputs :
          ~Member(c, sockUser[s])
              /\ (JoinConversation(s, c) \/ SendMessage(s, c, None, <<"h">>))
    \/ SendMessage(s, 0, None, <<"h">>)

\* C18: a failure inside a handler running for connection X (a throwing
\* persistence call or a refused request) changes the rooms of no other
\* connection and the Presence Registry entry of no other user, and sends
\* events to X alone.
FailureContained ==
    [][\A s \in Sockets :
          (sockStatus[s] = "open" /\ (FailsFor(s) \/ RefusedFor(s))) =>
              /\ \A o \in Sockets \ {s} : rooms'[o] = rooms[o]
              /\ \A u \in Users \ {sockUser[s]} : onlineUsers'[u] = onlineUsers[u]
              /\ \A i \in DOMAIN emitted' : emitted'[i].to = s]_vars

\* C19: a throwing persistence call of start_conversation, join_conversation,
\* send_message or mark_as_read is caught in the handler and answered with
\* one generic error event to the caller.
PersistenceFailureAnswered ==
    [][\A s \in Sockets :
          (sockStatus[s] = "open" /\ FailsFor(s)) =>
              /\ Len(emitted') = 1
              /\ emitted'[1].to = s
              /\ emitted'[1].ev = "error"
              /\ emitted'[1].text \in {"Failed to start conversation",
                                       "Failed to send message"}
              /\ sockStatus' = sockStatus]_vars

\* the step delivered exactly one event named ev, carrying the user of s and
\* c, to every connection in the room of c other than s, and nothing else
ToRoomOthers(s, c, ev) ==
    /\ \A o \in Sockets :
          Cardinality({i \in DOMAIN emitted' : emitted'[i].to = o})
              = (IF o # s /\ sockStatus[o] = "open" /\ c \in rooms[o] THEN 1 ELSE 0)
    /\ \A i \in DOMAIN emitted' :
          emitted'[i] = Ev(emitted'[i].to, ev, sockUser[s], c, 0, "")

\* C20: typing(C) / stop_typing(C) from connection X delivers one
\* user_typing / user_stopped_typing with X's user id and C to every
\* connection in C's room other than X, nothing to X, and changes neither
\* the persisted state nor any room nor the Presence Registry.
TypingReachesOthersOnly ==
    [][\A s \in Sockets, c \in ConvInputs :
          /\ Typing(s, c) => ToRoomOthers(s, c, "user_typing")
          /\ StopTyping(s, c) => ToRoomOthers(s, c, "user_stopped_typing")
          /\ (Typing(s, c) \/ StopTyping(s, c)) =>
                UNCHANGED <<conversations, messages, rooms, onlineUsers,
                            sockStatus, sockUser, tasks, inbox>>]_vars

\* a typing signal has just reached the one other member of a room in which
\* the signalling connection sits too
PeerSawTyping ==
    /\ Len(emitted) = 1
    /\ emitted[1].ev = "user_typing"
    /\ \E s \in Sockets \ {emitted[1].to} :
          /\ sockStatus[s] = "open"
          /\ sockUser[s] = emitted[1].user
          /\ emitted[1].conv \in rooms[s]
          /\ emitted[1].conv \in rooms[emitted[1].to]

\* C21: a typing(C) or stop_typing(C) from a connection that is not in C's
\* room delivers no event to anybody.
TypingNeedsMembership ==
    [][\A s \in Sockets, c \in ConvInputs :
          (c \notin rooms[s] /\ (Typing(s, c) \/ StopTyping(s, c)))
              => emitted' = << >>]_vars

\* C22: messages_read{C, U} is emitted only once the read-flag update of
\* mark_as_read(C) by U has taken effect, reaches every member of C's room
\* except the marking connection, and is not emitted when the update fails.
ReceiptFollowsUpdate ==
    /\ [](\A i \in DOMAIN emitted :
            emitted[i].ev = "messages_read" =>
                \A m \in DOMAIN messages :
                    (messages[m].conv = emitted[i].conv
                     /\ messages[m].sender # emitted[i].user) => messages[m].isRead)
    /\ [][\A s \in Sockets :
            /\ \A c \in ConvInputs :
                  MarkAsRead(s, c) => ToRoomOthers(s, c, "messages_read")
            /\ MarkAsReadFails(s) => (emitted' = << >> /\ messages' = messages)]_vars

\* a receipt has just reached the one other member of the room, and a
\* message of that conversation is read
ReceiptReachedPeer ==
    /\ Len(emitted) = 1
    /\ emitted[1].ev = "messages_read"
    /\ \E s \in Sockets \ {emitted[1].to} :
          /\ sockUser[s] = emitted[1].user
          /\ emitted[1].conv \in rooms[s]
    /\ \E m \in DOMAIN messages :
          messages[m].conv = emitted[1].conv /\ messages[m].isRead

\* C23: leave_conversation(C) takes the connection out of C's room and
\* changes no other room membership, no persisted row and no Presence
\* Registry entry; no new_message, typing or messages_read event of C is
\* delivered to a connection that is not in C's room.
LeaveStopsDelivery ==
    /\ [](\A i \in DOMAIN emitted :
            emitted[i].ev \in {"new_message", "user_typing",
                               "user_stopped_typing", "messages_read"}
                => emitted[i].conv \in rooms[emitted[i].to])
    /\ [][\A s \in Sockets, c \in ConvIds :
            LeaveConversation(s, c) =>
                /\ rooms' = [rooms EXCEPT ![s] = @ \ {c}]
                /\ c \notin rooms'[s]
                /\ emitted' = << >>
                /\ UNCHANGED <<conversations, messages, onlineUsers,
                               sockStatus, sockUser, tasks, inbox>>]_vars

\* a connection that received a message of a conversation has left the room,
\* and the next message of that conversation has just gone to the room
\* without it
LeaverMissedMessage ==
    \E s \in Sockets, c \in 1..Len(conversations) :
        /\ sockStatus[s] = "open"
        /\ c \notin rooms[s]
        /\ Len(inbox[s]) = 1
        /\ messages[inbox[s][1]].conv = c
        /\ Len(emitted) > 0
        /\ emitted[1].ev = "new_message"
        /\ emitted[1].conv = c
        /\ emitted[1].msg # inbox[s][1]

\* C24: a start_conversation or a send_message(recipientId) that names an id
\* of no user creates no conversation and no message, adds the caller's
\* connection to no room, and answers the caller with an error event.
UnknownRecipientRefused ==
    [][\A s \in Sockets :
          /\ StartConversation(s, Ghost) =>
                /\ emitted' = <<Ev(s, "error", None, 0, 0, "User not found")>>
                /\ UNCHANGED <<conversations, messages, rooms, tasks>>
          /\ SendMessage(s, 0, Ghost, <<"h">>) =>
                /\ UNCHANGED <<conversations, messages, rooms>>
                /\ \E t \in Tasks :
                      tasks'[t].pc = "sm_create" /\ tasks'[t].recip = Ghost
          /\ \A t \in Tasks :
                (tasks[t].sock = s /\ tasks[t].recip = Ghost
                 /\ tasks'[t].pc # tasks[t].pc) =>
                    /\ tasks'[t].pc = "idle"
                    /\ emitted' = <<Ev(s, "error", None, 0, 0, "Failed to send message")>>
                    /\ UNCHANGED <<conversations, messages, rooms>>]_vars

\* an unknown recipient has just been refused while conversations exist and
\* a connection sits in a room
UnknownRecipientAnswered ==
    /\ Len(conversations) > 0
    /\ \E s \in Sockets : emitted = <<Ev(s, "error", None, 0, 0, "User not found")>>
    /\ \E s \in Sockets : rooms[s] # {}

\* C25: a findOrCreateConversation(A, B), A other than B, returns only a
\* conversation whose participants are exactly {A, B}; a conversation that
\* holds A and B and a third user, or only one of them, is never returned,
\* and a new conversation of {A, B} is created instead.
FocReturnsExactPair ==
    [][\A t \in Tasks :
          /\ (/\ tasks[t].pc = "idle"
               /\ tasks'[t].pc \in {"sc_create", "sc_fetch"}
               /\ tasks'[t].recip # tasks'[t].user) =>
                 LET pair == {tasks'[t].user, tasks'[t].recip}
                 IN  IF tasks'[t].pc = "sc_fetch"
                     THEN conversations[tasks'[t].conv].participants = pair
                     ELSE ~\E c \in 1..Len(conversations) :
                              conversations[c].participants = pair
          /\ (tasks[t].pc = "sc_create" /\ tasks'[t].pc = "sc_fetch") =>
                 /\ tasks'[t].conv = Len(conversations) + 1
                 /\ conversations'[tasks'[t].conv].participants
                       = {tasks[t].user, tasks[t].recip}]_vars

\* a new conversation of two users was created although a conversation of
\* three holds both of them
GroupNotReused ==
    \E t \in Tasks, g \in 1..Len(conversations) :
        /\ tasks[t].pc = "sc_fetch"
        /\ tasks[t].conv # g
        /\ conversations[tasks[t].conv].participants = {tasks[t].user, tasks[t].recip}
        /\ Cardinality(conversations[g].participants) = 3

\* C26: the messages list of conversation_ready holds exactly the min(50, n)
\* most recently created messages of the conversation, n its message count,
\* oldest first.
ReadyListsLastFifty ==
    [][\A t \in Tasks :
          ScFetch(t) =>
              LET c == tasks[t].conv
                  all == {m \in DOMAIN messages : messages[m].conv = c}
                  n == Cardinality(all)
                  listed == {emitted'[i].msg : i \in 2..Len(emitted')}
              IN  /\ Len(emitted') = 1 + (IF n < 50 THEN n ELSE 50)
                  /\ emitted'[1] = Ev(tasks[t].sock, "conversation_ready", None, c, 0, "")
                  /\ \A i \in 2..Len(emitted') :
                        /\ emitted'[i].ev = "ready_item"
                        /\ emitted'[i].to = tasks[t].sock
                        /\ emitted'[i].msg \in all
                        /\ i > 2 => emitted'[i - 1].msg < emitted'[i].msg
                  /\ \A m \in all \ listed : \A l \in listed : m < l]_vars

\* a conversation_ready has just listed fifty messages and left out an older
\* one of the same conversation
OlderMessageCutOff ==
    /\ Len(emitted) = 51
    /\ emitted[1].ev = "conversation_ready"
    /\ \E m \in DOMAIN messages :
          messages[m].conv = emitted[1].conv /\ m < emitted[2].msg

\* C27: a mark_as_read(C) from a user who is no participant of C changes no
\* read flag and delivers no messages_read event.
OutsiderCannotMarkRead ==
    [][\A s \in Sockets, c \in ConvInputs :
          (~Member(c, sockUser[s]) /\ MarkAsRead(s, c))
              => (messages' = messages /\ emitted' = << >>)]_vars

\* C28: executed one after the other, findOrCreateConversation(A, B) and
\* findOrCreateConversation(B, A) resolve to the same conversation: a lookup
\* in either argument order finds the conversation of the unordered pair,
\* and no second conversation of a pair is ever created.
OrderIndependentLookup ==
    /\ [](\A c1, c2 \in 1..Len(conversations) :
            conversations[c1].participants = conversations[c2].participants
                => c1 = c2)
    /\ [][\A t \in Tasks :
            (/\ tasks[t].pc = "idle"
             /\ tasks'[t].pc \in {"sc_create", "sc_fetch", "sm_create", "sm_check"}) =>
                \A c \in 1..Len(conversations) :
                    conversations[c].participants = {tasks'[t].recip, tasks'[t].user}
                        => /\ tasks'[t].pc \in {"sc_fetch", "sm_check"}
                           /\ tasks'[t].conv = c
                           /\ conversations' = conversations]_vars

\* u1 sits in the room of the only conversation, u2 sits in no room, and
\* u2's start_conversation(u1) has resolved to that conversation
ReverseOrderFound ==
    \E t \in Tasks :
        /\ tasks[t].pc = "sc_fetch"
        /\ tasks[t].user = "u2" /\ tasks[t].recip = "u1"
        /\ tasks[t].conv = 1
        /\ Len(conversations) = 1
        /\ rooms[1] = {1} /\ rooms[2] = {}

\* C29: in every reachable state a connection is in the room of conversation
\* C only if C exists and the connection's user is a participant of C.
RoomImpliesParticipant ==
    \A s \in Sockets : \A c \in rooms[s] :
        /\ c \in 1..Len(conversations)
        /\ sockUser[s] \in conversations[c].participants

\* u1 sits in the rooms of two conversations, u2 sits in one and has just
\* been refused the other
RoomsFilledOutsiderRefused ==
    /\ Len(conversations) = 2
    /\ rooms[1] = {1, 2}
    /\ Cardinality(rooms[2]) = 1
    /\ emitted = <<Ev(2, "error", None, 0, 0, NotParticipantText)>>
    /\ \E c \in 1..2 : sockUser[2] \notin conversations[c].participants

\* C30: the Presence Registry holds at most one handle per user, and a handle
\* it holds for U is the most recently connected connection of U, which is
\* still open.
RegistryHandleIsLatestOpen ==
    \A u \in Users :
        onlineUsers[u] # 0 =>
            /\ onlineUsers[u] \in Sockets
            /\ sockStatus[onlineUsers[u]] = "open"
            /\ sockUser[onlineUsers[u]] = u
            /\ \A o \in Sockets : sockUser[o] = u => o <= onlineUsers[u]

\* a user has two open connections and the registry holds the later one
LaterOfTwoRegistered ==
    \E u \in Users, s, o \in Sockets :
        /\ s < o
        /\ sockStatus[s] = "open" /\ sockStatus[o] = "open"
        /\ sockUser[s] = u /\ sockUser[o] = u
        /\ onlineUsers[u] = o
====
